---------------------------- MODULE Spec2Model ----------------------------
(***************************************************************************)
(* One request to POST /api/crop-and-process of src/server.js (the         *)
(* streaming revision, lines 127-280): validation, processImageChunk's     *)
(* grid loop, the JSZip archive, uploadWithRetry, the signed link and the   *)
(* response.  The remote store, the encoder and the client are the          *)
(* environment: their outcomes are chosen nondeterministically.             *)
(***************************************************************************)
EXTENDS Integers, Sequences, FiniteSets

\* ------------------------------------------------------------------ bounds
MaxImageWidth == 3
MaxImageHeight == 3

\* --------------------------------------------------------- program constants
\* async-retry option `retries` (retries AFTER the first attempt)
retries == 3

\* ------------------------------------------------------------ request fields
\* A multipart text field is a string: a sequence of characters.  An absent
\* field is `undefined`, which parseInt first converts to the string "undefined".
UndefinedField == <<"u", "n", "d", "e", "f", "i", "n", "e", "d">>

FieldValues ==
  { UndefinedField, <<>>, <<"a", "b", "c">>, <<"0">>, <<"-", "5">>,
    <<"1">>, <<"2">>, <<"3">>, <<"2", "p", "x">> }

DecimalDigits == <<"0", "1", "2", "3", "4", "5", "6", "7", "8", "9">>
HexLetters == <<"a", "b", "c", "d", "e", "f">>
HexCapitals == <<"A", "B", "C", "D", "E", "F">>

IsDigit(c, radix) ==
  \/ \E i \in 1..10 : DecimalDigits[i] = c
  \/ radix = 16 /\ \E i \in 1..6 : HexLetters[i] = c \/ HexCapitals[i] = c

DigitValue(c) ==
  IF \E i \in 1..10 : DecimalDigits[i] = c
  THEN (CHOOSE i \in 1..10 : DecimalDigits[i] = c) - 1
  ELSE (CHOOSE i \in 1..6 : HexLetters[i] = c \/ HexCapitals[i] = c) + 9

RECURSIVE TrimStart(_)
TrimStart(s) ==
  IF s # <<>> /\ s[1] \in {" ", "\t", "\n"} THEN TrimStart(Tail(s)) ELSE s

RECURSIVE DigitPrefixLen(_, _)
DigitPrefixLen(s, radix) ==
  IF s # <<>> /\ IsDigit(s[1], radix) THEN 1 + DigitPrefixLen(Tail(s), radix) ELSE 0

RECURSIVE DigitsValue(_, _)
DigitsValue(s, radix) ==
  IF s = <<>> THEN 0
  ELSE DigitsValue(SubSeq(s, 1, Len(s) - 1), radix) * radix + DigitValue(s[Len(s)])

\* A JavaScript number that is either NaN or an integer.
NaN == [nan |-> TRUE, val |-> 0]
Num(n) == [nan |-> FALSE, val |-> n]
isNaN(v) == v.nan

\* parseInt(string) with no radix argument: skip leading white space, take an
\* optional sign, a "0x" prefix selects radix 16, then the longest prefix of
\* digits; no digit at all gives NaN.  Whatever follows the digits is ignored.
parseInt(string) ==
  LET s1 == TrimStart(string)
      neg == s1 # <<>> /\ s1[1] = "-"
      s2 == IF s1 # <<>> /\ s1[1] \in {"+", "-"} THEN Tail(s1) ELSE s1
      hex == Len(s2) >= 2 /\ s2[1] = "0" /\ s2[2] \in {"x", "X"}
      radix == IF hex THEN 16 ELSE 10
      s3 == IF hex THEN SubSeq(s2, 3, Len(s2)) ELSE s2
      n == DigitPrefixLen(s3, radix)
  IN IF n = 0 THEN NaN
     ELSE Num((IF neg THEN -1 ELSE 1) * DigitsValue(SubSeq(s3, 1, n), radix))

\* ------------------------------------------------------------------ images
NoImage == [present |-> FALSE, decodable |-> FALSE, width |-> 0, height |-> 0]
CorruptImage == [present |-> TRUE, decodable |-> FALSE, width |-> 0, height |-> 0]

Images ==
  {NoImage, CorruptImage} \cup
  { [present |-> TRUE, decodable |-> TRUE, width |-> w, height |-> h] :
      w \in 1..MaxImageWidth, h \in 1..MaxImageHeight }

\* ---------------------------------------------------------------- responses
Resp(status, body) == [status |-> status, body |-> body]

ProcessingMessage ==
  "Error processing image: Failed to process image cropping. Please ensure the image format and dimensions are valid."
UploadMessage == "Error processing image: Failed to upload after multiple attempts."
SignMessage == "Error processing image: <signer error>"

VARIABLES
  image,          \* req.file
  cropWidth,      \* req.body.cropWidth
  cropHeight,     \* req.body.cropHeight
  pc,             \* where the handler is
  cropWidthInt,
  cropHeightInt,
  metadata,       \* processImageChunk's metadata (width 0: not read yet)
  x,
  y,
  rects,          \* the cropAreas extracted and encoded so far, in order
  zip,            \* the JSZip object: its members, by name
  sharpCalls,     \* sharp(...) pipelines started (metadata and extracts)
  chunkResult,    \* processImageChunk's promise: pending, resolved, rejected
  zipStream,      \* the PassThrough handed to Upload as Body
  attempts,       \* calls of upload.done() made by retry
  outcomes,       \* the store's answer to each attempt
  readFrom,       \* zipStream position at which the latest attempt began
  uploadResult,   \* uploadWithRetry's promise: pending, ok, failed
  store,          \* the object at Key in the bucket
  linkIssued,
  responses,      \* responses sent on res
  abortedAt       \* the pc at which the client aborted the request, or "none"

vars ==
  << image, cropWidth, cropHeight, pc, cropWidthInt, cropHeightInt, metadata,
     x, y, rects, zip, sharpCalls, chunkResult, zipStream, attempts, outcomes,
     readFrom, uploadResult, store, linkIssued, responses, abortedAt >>

inputVars == << image, cropWidth, cropHeight >>
loopVars == << metadata, x, y, rects, zip, sharpCalls >>
uploadVars == << zipStream, attempts, outcomes, readFrom, uploadResult, store >>

NoStream == [open |-> FALSE, len |-> 0, pos |-> 0]
NoObject == [exists |-> FALSE, first |-> 0, last |-> 0]

Init ==
  /\ image \in Images
  /\ cropWidth \in FieldValues
  /\ cropHeight \in FieldValues
  /\ pc = "request"
  /\ cropWidthInt = NaN
  /\ cropHeightInt = NaN
  /\ metadata = [width |-> 0, height |-> 0]
  /\ x = 0
  /\ y = 0
  /\ rects = <<>>
  /\ zip = {}
  /\ sharpCalls = 0
  /\ chunkResult = "pending"
  /\ zipStream = NoStream
  /\ attempts = 0
  /\ outcomes = <<>>
  /\ readFrom = 0
  /\ uploadResult = "pending"
  /\ store = NoObject
  /\ linkIssued = FALSE
  /\ responses = <<>>
  /\ abortedAt = "none"

\* ------------------------------------------------------------- validation
InvalidCropDimensions(w, h) ==
  IF isNaN(w) \/ isNaN(h) THEN TRUE ELSE w.val <= 0 \/ h.val <= 0

ValidateRequest ==
  /\ pc = "request"
  /\ IF ~image.present
     THEN /\ responses' = Append(responses, Resp(400, "No image uploaded"))
          /\ pc' = "done"
          /\ UNCHANGED << cropWidthInt, cropHeightInt >>
     ELSE /\ cropWidthInt' = parseInt(cropWidth)
          /\ cropHeightInt' = parseInt(cropHeight)
          /\ IF InvalidCropDimensions(cropWidthInt', cropHeightInt')
             THEN /\ responses' = Append(responses, Resp(400, "Invalid crop dimensions"))
                  /\ pc' = "done"
             ELSE /\ pc' = "metadata"
                  /\ UNCHANGED responses
  /\ UNCHANGED << inputVars, loopVars, chunkResult, uploadVars, linkIssued, abortedAt >>

\* ------------------------------------------------------ processImageChunk
\* Mutant of ChunkError: the catch logs the error and does not rethrow, so the
\* handler goes on to the archive and the upload.
ChunkErrorSwallowed ==
  /\ chunkResult' = "rejected"
  /\ pc' = "archive"
  /\ UNCHANGED responses

\* The catch of processImageChunk rethrows; the handler's catch answers 500.
ChunkError ==
  /\ chunkResult' = "rejected"
  /\ responses' = Append(responses, Resp(500, ProcessingMessage))
  /\ pc' = "done"

ReadMetadata ==
  /\ pc = "metadata"
  /\ sharpCalls' = sharpCalls + 1
  /\ IF image.decodable
     THEN /\ metadata' = [width |-> image.width, height |-> image.height]
          /\ pc' = "outer"
          /\ UNCHANGED << chunkResult, responses >>
     ELSE /\ ChunkError
          /\ UNCHANGED metadata
  /\ x' = 0
  /\ y' = 0
  /\ UNCHANGED << inputVars, cropWidthInt, cropHeightInt, rects, zip, uploadVars,
                  linkIssued, abortedAt >>

\* while (y < metadata.height)
OuterCond(yy) == yy < metadata.height

\* Mutant of InnerCond: an off-by-one loop test
InnerCondInclusive(xx) == xx <= metadata.width

\* while (x < metadata.width)
InnerCond(xx) == xx < metadata.width

Min(a, b) == IF a <= b THEN a ELSE b

\* Mutant of CropAreaWidth: the width is not clamped to the image
CropAreaWidthUnclamped(xx) == cropWidthInt.val

CropAreaWidth(xx) == Min(cropWidthInt.val, metadata.width - xx)

\* Mutant of CropAreaHeight: the height is not clamped to the image
CropAreaHeightUnclamped(yy) == cropHeightInt.val

CropAreaHeight(yy) == Min(cropHeightInt.val, metadata.height - yy)

CropArea(xx, yy) ==
  [left |-> xx, top |-> yy, width |-> CropAreaWidth(xx), height |-> CropAreaHeight(yy)]

\* `crop_${x}_${y}.jpg`: the name is the pair of origins
MemberName(xx, yy) == << "crop", xx, yy >>

\* zip.file(name, data): a member of that name is replaced
ZipFile(z, name, data) ==
  {m \in z : m.name # name} \cup {[name |-> name, data |-> data]}

OuterTest ==
  /\ pc = "outer"
  /\ IF OuterCond(y)
     THEN /\ pc' = "inner"
          /\ UNCHANGED chunkResult
     ELSE /\ pc' = "archive"
          /\ chunkResult' = "resolved"
  /\ UNCHANGED << inputVars, cropWidthInt, cropHeightInt, loopVars, uploadVars,
                  linkIssued, responses, abortedAt >>

InnerTest ==
  /\ pc = "inner"
  /\ IF InnerCond(x)
     THEN /\ pc' = "encode"
          /\ UNCHANGED << x, y >>
     ELSE /\ x' = 0
          /\ y' = y + cropHeightInt.val
          /\ pc' = "outer"
  /\ UNCHANGED << inputVars, cropWidthInt, cropHeightInt, metadata, rects, zip,
                  sharpCalls, chunkResult, uploadVars, linkIssued, responses, abortedAt >>

EncodeTile ==
  /\ pc = "encode"
  /\ sharpCalls' = sharpCalls + 1
  /\ \E encoded \in BOOLEAN :
       IF encoded
       THEN /\ rects' = Append(rects, CropArea(x, y))
            /\ zip' = ZipFile(zip, MemberName(x, y), CropArea(x, y))
            /\ x' = x + cropWidthInt.val
            /\ pc' = "inner"
            /\ UNCHANGED << chunkResult, responses >>
       ELSE /\ ChunkError
            /\ UNCHANGED << rects, zip, x >>
  /\ UNCHANGED << inputVars, cropWidthInt, cropHeightInt, metadata, y, uploadVars,
                  linkIssued, abortedAt >>

\* ------------------------------------------------------------------ upload
\* generateNodeStream({streamFiles: true}): one chunk per member, then the
\* central directory
ArchiveChunks(z) == Cardinality(z) + 1

\* zipStream, the pipe from the archive, new Upload({Body: zipStream}) and the
\* call of uploadWithRetry, which starts the first attempt
StartUpload ==
  /\ pc = "archive"
  /\ zipStream' = [open |-> TRUE, len |-> ArchiveChunks(zip), pos |-> 0]
  /\ pc' = "uploading"
  /\ UNCHANGED << inputVars, cropWidthInt, cropHeightInt, loopVars, chunkResult,
                  attempts, outcomes, readFrom, uploadResult, store, linkIssued,
                  responses, abortedAt >>

\* Mutant of ShouldRetry: `retries` read as the number of attempts
ShouldRetryOnceLess(made) == made < retries

\* async-retry runs the operation again while fewer than `retries` retries were
\* made: after `made` attempts, made - 1 retries were

ShouldRetry(made) == made <= retries

\* One call of upload.done() on the one Upload object: it reads its Body, the one
\* zipStream, from where the stream stands, and the store accepts or fails.
UploadAttempt ==
  /\ pc = "uploading"
  /\ \E n \in 0..(zipStream.len - zipStream.pos), accepted \in BOOLEAN :
       /\ accepted => zipStream.pos + n = zipStream.len
       /\ attempts' = attempts + 1
       /\ readFrom' = zipStream.pos
       /\ zipStream' = [zipStream EXCEPT !.pos = @ + n]
       /\ outcomes' = Append(outcomes, IF accepted THEN "ok" ELSE "fail")
       /\ IF accepted
          THEN /\ store' = [exists |-> TRUE, first |-> zipStream.pos + 1,
                            last |-> zipStream.len]
               /\ uploadResult' = "ok"
               /\ pc' = "sign"
               /\ UNCHANGED responses
          ELSE /\ UNCHANGED store
               /\ IF ShouldRetry(attempts')
                  THEN UNCHANGED << uploadResult, pc, responses >>
                  ELSE /\ uploadResult' = "failed"
                       /\ responses' = Append(responses, Resp(500, UploadMessage))
                       /\ pc' = "done"
  /\ UNCHANGED << inputVars, cropWidthInt, cropHeightInt, loopVars, chunkResult,
                  linkIssued, abortedAt >>

\* zipStream.on('error', ...) throws from an event listener: no try block of
\* the handler is on the stack, the exception is uncaught and the process ends.
StreamError ==
  /\ pc = "uploading"
  /\ zipStream.open
  /\ pc' = "crashed"
  /\ UNCHANGED << inputVars, cropWidthInt, cropHeightInt, loopVars, chunkResult,
                  uploadVars, linkIssued, responses, abortedAt >>

SignUrl ==
  /\ pc = "sign"
  /\ \E signed \in BOOLEAN :
       IF signed
       THEN /\ linkIssued' = TRUE
            /\ responses' = Append(responses, Resp(200, "fileUrl,fileName"))
       ELSE /\ UNCHANGED linkIssued
            /\ responses' = Append(responses, Resp(500, SignMessage))
  /\ pc' = "done"
  /\ UNCHANGED << inputVars, cropWidthInt, cropHeightInt, loopVars, chunkResult,
                  uploadVars, abortedAt >>

\* The client closes the connection.  The handler registers no listener for it
\* and holds no abort signal: nothing of the job changes.
ClientAbort ==
  /\ pc \in {"metadata", "outer", "inner", "encode", "archive", "uploading", "sign"}
  /\ abortedAt = "none"
  /\ abortedAt' = pc
  /\ UNCHANGED << inputVars, pc, cropWidthInt, cropHeightInt, loopVars, chunkResult,
                  uploadVars, linkIssued, responses >>

Next ==
  \/ ValidateRequest
  \/ ReadMetadata
  \/ OuterTest
  \/ InnerTest
  \/ EncodeTile
  \/ StartUpload
  \/ UploadAttempt
  \/ StreamError
  \/ SignUrl
  \/ ClientAbort

Spec == Init /\ [][Next]_vars

\* ======================================================================
\* Properties
\* ======================================================================
CeilDiv(a, b) == (a + b - 1) \div b

Contains(r, px, py) ==
  /\ r.left <= px /\ px < r.left + r.width
  /\ r.top <= py /\ py < r.top + r.height

RectsAt(px, py) == {i \in 1..Len(rects) : Contains(rects[i], px, py)}

InsideImage(r) ==
  /\ 0 <= r.left /\ r.left + r.width <= metadata.width
  /\ 0 <= r.top /\ r.top + r.height <= metadata.height

ExpectedTiles ==
  CeilDiv(metadata.width, cropWidthInt.val) * CeilDiv(metadata.height, cropHeightInt.val)

FullImage == [left |-> 0, top |-> 0, width |-> metadata.width, height |-> metadata.height]

\* C1: the rectangles the grid loop emits never leave the image and never
\* overlap, and once the loop has ended there are exactly
\* ceil(W/w) * ceil(H/h) of them and every pixel of the image lies in exactly one.
C1_GridPartition ==
  /\ \A i \in 1..Len(rects) : InsideImage(rects[i])
  /\ \A px \in 0..(metadata.width - 1), py \in 0..(metadata.height - 1) :
       Cardinality(RectsAt(px, py)) <= 1
  /\ chunkResult = "resolved" =>
       /\ Len(rects) = ExpectedTiles
       /\ \A px \in 0..(metadata.width - 1), py \in 0..(metadata.height - 1) :
            Cardinality(RectsAt(px, py)) = 1

\* C1 witness: a finished grid of four tiles with a remainder column
C1_Witness ==
  /\ chunkResult = "resolved"
  /\ Len(rects) = 4
  /\ metadata.width % cropWidthInt.val # 0

\* C2 (as amended): retry makes at most retries + 1 = 4 attempts; when the store
\* fails the first k <= retries attempts and accepts the next, uploadWithRetry
\* succeeds on attempt k + 1; it keeps trying while fewer than 4 attempts have
\* failed, and fails, with the upload error as the 500 response, exactly when
\* all 4 attempts have failed.
C2_RetryUntilAccepted ==
  /\ Len(outcomes) = attempts
  /\ attempts <= retries + 1
  /\ \A k \in 0..retries :
       ( /\ Len(outcomes) > k
         /\ \A i \in 1..k : outcomes[i] = "fail"
         /\ outcomes[k + 1] = "ok" )
       => (uploadResult = "ok" /\ attempts = k + 1)
  /\ (attempts <= retries /\ \A i \in 1..attempts : outcomes[i] = "fail")
       => uploadResult = "pending"
  /\ (attempts = retries + 1 /\ \A i \in 1..attempts : outcomes[i] = "fail")
       => uploadResult = "failed"
  /\ uploadResult = "failed" =>
       /\ attempts = retries + 1
       /\ \A i \in 1..attempts : outcomes[i] = "fail"
       /\ responses = << Resp(500, UploadMessage) >>

\* C2 witness: three failed attempts, then the fourth is accepted
C2_Witness ==
  /\ uploadResult = "ok"
  /\ attempts = retries + 1
  /\ outcomes[retries] = "fail"

\* C2 as stated: the attempt count stays within the 2-3 of the retry policy
\* the spec describes, so no job makes more than 3 upload attempts.
C2_AtMostThreeAttempts == attempts <= 3

\* C3 as stated: every attempt after a failed one reads the archive from its
\* first byte, and a stored object holds the full archive content.
C3_RetryReadsFreshStream ==
  /\ attempts >= 2 => readFrom = 0
  /\ store.exists => (store.first = 1 /\ store.last = zipStream.len)

\* C4: every emitted rectangle is at least 1x1 and at most w x h; a rectangle
\* of the rightmost column is narrower than w exactly when W is not a multiple
\* of w, one of the bottom row is shorter than h exactly when H is not a
\* multiple of h, and every other rectangle is exactly w x h.
C4_TileDimensions ==
  \A i \in 1..Len(rects) :
    LET r == rects[i]
        w == cropWidthInt.val
        h == cropHeightInt.val
        rightmost == r.left + w >= metadata.width
        bottom == r.top + h >= metadata.height
    IN /\ 1 <= r.width /\ r.width <= w
       /\ 1 <= r.height /\ r.height <= h
       /\ rightmost => (r.width < w <=> metadata.width % w # 0)
       /\ bottom => (r.height < h <=> metadata.height % h # 0)
       /\ (~rightmost /\ ~bottom) => (r.width = w /\ r.height = h)

\* C4 witness: a full-size tile followed by a narrower tile of the last column
C4_Witness ==
  /\ Len(rects) >= 2
  /\ rects[1].width = cropWidthInt.val
  /\ rects[2].top = 0
  /\ rects[2].width < cropWidthInt.val

\* What the claim calls numeric: an optional sign and one or more decimal digits
IsNumeric(s) ==
  LET digits == IF s # <<>> /\ s[1] \in {"+", "-"} THEN Tail(s) ELSE s
  IN digits # <<>> /\ \A i \in 1..Len(digits) : IsDigit(digits[i], 10)

InvalidField(s) == IF IsNumeric(s) THEN parseInt(s).val <= 0 ELSE TRUE

\* C5 as stated: a request with no image, or with a tile width or height that
\* is non-numeric or <= 0, is answered 400 and nothing is processed for it: no
\* decode, no encode, no archive member, no upload attempt, no link.
C5_InvalidInputRejected ==
  (~image.present \/ InvalidField(cropWidth) \/ InvalidField(cropHeight)) =>
    /\ sharpCalls = 0
    /\ rects = <<>>
    /\ zip = {}
    /\ attempts = 0
    /\ ~store.exists
    /\ ~linkIssued
    /\ pc = "done" => (Len(responses) = 1 /\ responses[1].status = 400)

\* C6: once decoding or a tile's encoding has failed, the job has ended with the
\* processing error as its one (500) response, and no archive stream, no upload
\* attempt, no stored object and no link exist; an archive stream or an upload
\* attempt exists only when every rectangle of the grid was encoded and added.
C6_TileFailureFatal ==
  /\ chunkResult = "rejected" =>
       /\ pc = "done"
       /\ responses = << Resp(500, ProcessingMessage) >>
       /\ ~zipStream.open
       /\ attempts = 0
       /\ ~store.exists
       /\ ~linkIssued
  /\ (zipStream.open \/ attempts > 0 \/ store.exists) =>
       /\ chunkResult = "resolved"
       /\ Len(rects) = ExpectedTiles
       /\ Cardinality(zip) = ExpectedTiles

\* C6 witness: a tile fails after another was already added to the archive
C6_Witness ==
  /\ chunkResult = "rejected"
  /\ Cardinality(zip) >= 1
  /\ Len(rects) < ExpectedTiles

\* C7 (as amended): a tile larger than the image is never answered 400; when the
\* tile is wider AND higher than the image the finished grid is the one tile
\* equal to the full image; when only the width (height) is larger, every tile
\* starts at the left (top) edge and is as wide (high) as the image.
C7_OversizedClamped ==
  LET w == cropWidthInt.val
      h == cropHeightInt.val
  IN metadata.width > 0 =>
       /\ (w > metadata.width \/ h > metadata.height) =>
            \A i \in 1..Len(responses) : responses[i].status # 400
       /\ (chunkResult = "resolved" /\ w > metadata.width /\ h > metadata.height) =>
            rects = << FullImage >>
       /\ w > metadata.width =>
            \A i \in 1..Len(rects) : rects[i].left = 0 /\ rects[i].width = metadata.width
       /\ h > metadata.height =>
            \A i \in 1..Len(rects) : rects[i].top = 0 /\ rects[i].height = metadata.height

\* C7 witness: a finished grid for a tile larger than the image in both dimensions
C7_Witness ==
  /\ chunkResult = "resolved"
  /\ cropWidthInt.val > metadata.width
  /\ cropHeightInt.val > metadata.height
  /\ rects = << FullImage >>

\* C7 as stated: a tile wider OR higher than the image gives the single tile
\* equal to the full image.
C7_OversizedEitherSingleTile ==
  ( /\ chunkResult = "resolved"
    /\ (cropWidthInt.val > metadata.width \/ cropHeightInt.val > metadata.height) )
  => rects = << FullImage >>

\* C8 as stated: after the client aborted while the job was encoding, archiving
\* or uploading, no object of the job exists in the store.
C8_NoObjectAfterAbort ==
  abortedAt \in {"outer", "inner", "encode", "archive", "uploading"} => ~store.exists

\* C9 as stated: the archive stream emits as members are added, so whenever the
\* archive has a member its output stream is there for the upload to consume.
C9_StreamEmitsAsMembersAdded == zip # {} => zipStream.open

\* C10 as stated: a job that has ended has sent exactly one response, and no job
\* sends more than one.
C10_EveryRequestAnswered ==
  /\ Len(responses) <= 1
  /\ pc \in {"done", "crashed"} => Len(responses) = 1

=============================================================================
